---------------------------- MODULE Spec2Model ----------------------------
(***************************************************************************)
(* video2docs: a video is turned into an illustrated document by six       *)
(* stages (download, transcribe, LLM polish, image marking, frame          *)
(* extraction, rendering).  Three parts of the program are modelled:       *)
(*                                                                         *)
(*   Spec       the interactive session, the bounded retry loop and the    *)
(*              six stages of run_conversion            (cli.py)           *)
(*   SpecMerge  the sweep of Transcriber.merge_segments_by_rule            *)
(*                                                      (transcriber.py)   *)
(*   SpecMarks  the three substitution passes of                           *)
(*              MarkdownGenerator._replace_image_marks                     *)
(*                                                (markdown_generator.py)  *)
(*                                                                         *)
(* Each specification moves its own variables and leaves the variables of  *)
(* the other two at their idle values.  Times are integers counting half   *)
(* seconds (merge_gap = 0.5 s is 1).  A text is a sequence of one-         *)
(* character strings; a document is a sequence of lexemes.                 *)
(***************************************************************************)
EXTENDS Integers, Sequences, FiniteSets, TLC

VARIABLES
    \* ---- session, retry loop and run_conversion (cli.py)
    pc,            \* position of the program
    settings,      \* the .env file: [llm |-> BOOLEAN, whisper |-> BOOLEAN]
    whisper_mode,  \* "api" | "local" | "unset"
    transcriber,   \* the Transcriber handle of the session, 0 for None
    constructed,   \* Transcriber objects constructed so far
    model_cache,   \* keys of transcriber._model_cache
    videos,        \* URLs entered so far
    attempt,       \* run_conversion_with_retry's attempt
    task_dirs,     \* numbers n of the task_<n> directories of the base directory
    task_dir,      \* number of the current attempt's directory, 0 before it exists
    handle_in,     \* the transcriber argument of the current run_conversion call
    started,       \* stages started by the current attempt, in order
    completed,     \* stages completed by the current attempt, in order
    failed_stage,  \* the stage of the current attempt that failed, or "none"
    outcome,       \* what the last stage that ran produced
    success,       \* the value run_conversion returned last
    log,           \* the attempts run_conversion_with_retry has made for this URL
    asked,         \* attempts after which the retry prompt was shown, in order
    \* ---- merge_segments_by_rule (transcriber.py)
    mpc, segments, params, idx, current, merged, decisions,
    \* ---- _replace_image_marks (markdown_generator.py)
    rpc, content, frame_mapping, doc,
    \* ---- the image plans and the introduction of one attempt (cli.py)
    image_plans, video_intro,
    \* ---- processes calling create_task_folder on one base directory (cli.py)
    procs,         \* per process: position, task_id read, directory returned
    base_dir,      \* numbers n of the task_<n> directories on the disk
    subdirs        \* the temp and output directories on the disk: <<n, name>>

orchVars == <<pc, settings, whisper_mode, transcriber, constructed, model_cache,
              videos, attempt, task_dirs, task_dir, handle_in, started,
              completed, failed_stage, outcome, success, log, asked>>
mergeVars == <<mpc, segments, params, idx, current, merged, decisions>>
markVars == <<rpc, content, frame_mapping, doc, image_plans, video_intro>>
raceVars == <<procs, base_dir, subdirs>>
vars == <<orchVars, mergeVars, markVars, raceVars>>

----------------------------------------------------------------------------
(* Bounds of the model.                                                    *)

\* URLs the user enters in one session.
MaxVideos == 2
\* Segments of one transcription.
MaxSegs == 3
\* Items (references, markers, words) of one document.
MaxItems == 2
\* Processes that call create_task_folder on the same base directory.
MaxProcs == 3

----------------------------------------------------------------------------
(* Generic helpers.                                                        *)

Max(S) == CHOOSE x \in S : \A y \in S : y <= x

Last(s) == s[Len(s)]

RECURSIVE Flatten(_)
Flatten(ss) == IF ss = <<>> THEN <<>> ELSE Head(ss) \o Flatten(Tail(ss))

IsPrefix(s, t) == Len(s) <= Len(t) /\ s = SubSeq(t, 1, Len(s))

----------------------------------------------------------------------------
(* The idle values of the three parts.                                     *)

None == 0

NoSegment == [start |-> 0, end |-> 0, text |-> <<>>]

OrchIdle ==
    /\ pc = "idle"
    /\ settings = [llm |-> TRUE, whisper |-> TRUE]
    /\ whisper_mode = "unset"
    /\ transcriber = None
    /\ constructed = 0
    /\ model_cache = {}
    /\ videos = 0
    /\ attempt = 0
    /\ task_dirs = {}
    /\ task_dir = 0
    /\ handle_in = None
    /\ started = <<>>
    /\ completed = <<>>
    /\ failed_stage = "none"
    /\ outcome = "none"
    /\ success = FALSE
    /\ log = <<>>
    /\ asked = <<>>

MergeIdle ==
    /\ mpc = "idle"
    /\ segments = <<>>
    /\ params = [min_duration |-> 0, max_duration |-> 0, merge_gap |-> 0]
    /\ idx = 0
    /\ current = NoSegment
    /\ merged = <<>>
    /\ decisions = <<>>

MarksIdle ==
    /\ rpc = "idle"
    /\ content = <<>>
    /\ frame_mapping = <<>>
    /\ doc = <<>>
    /\ image_plans = <<>>
    /\ video_intro = <<>>

RaceIdle ==
    /\ procs = <<>>
    /\ base_dir = {}
    /\ subdirs = {}

----------------------------------------------------------------------------
(* The session, the retry loop and run_conversion (cli.py).                *)

\* max_retries of run_conversion_with_retry.
max_retries == 3

\* The six stages in the order of run_conversion's code.
Stages == <<"Download", "Transcribe", "Polish", "Mark", "ExtractFrames", "Render">>

StageNames == {Stages[k] : k \in DOMAIN Stages}

StageIndex(s) == CHOOSE k \in DOMAIN Stages : Stages[k] = s

\* Task directories that exist in the base directory when the session starts.
InitialTaskDirs == {{}, {1, 3, 7}}

\* What a stage can produce.  "exception" is an unexpected exception and
\* "interrupt" a KeyboardInterrupt raised while the stage runs.
Outcomes(s) ==
    CASE s = "Download" -> {"ok", "no_info", "no_path", "exception", "interrupt"}
      [] s = "Transcribe" -> {"ok", "no_segments", "exception", "interrupt"}
      [] s = "Polish" -> {"ok", "empty", "exception", "interrupt"}
      [] s = "Mark" -> {"ok", "empty", "none", "exception", "interrupt"}
      [] s = "ExtractFrames" -> {"all", "partial", "nothing", "exception", "interrupt"}
      [] s = "Render" -> {"ok", "pdf_failed", "exception", "interrupt"}

\* get_next_task_id: max + 1 over the task_<n> directories, 1 when there is none.
get_next_task_id_fill_gap(dirs) == CHOOSE n \in 1..(Cardinality(dirs) + 1) : n \notin dirs /\ \A m \in 1..(n - 1) : m \in dirs

get_next_task_id_reuse(dirs) == IF dirs = {} THEN 1 ELSE Max(dirs)

get_next_task_id(dirs) == IF dirs = {} THEN 1 ELSE Max(dirs) + 1

\* Settings.is_configured and the whisper check of run_conversion.
preflight_ok_whisper_only == whisper_mode = "api" => settings.whisper

preflight_ok == settings.llm /\ (whisper_mode = "api" => settings.whisper)

\* Whether run_conversion leaves the stage by "return False, transcriber":
\* the checks after get_video_info, download and transcribe, the two except
\* clauses, and re.findall raising TypeError on a marked text of None.
stage_aborts_unchecked_download(s, o) ==
    \/ o \in {"exception", "interrupt"}
    \/ s = "Download" /\ o = "no_info"
    \/ s = "Transcribe" /\ o = "no_segments"
    \/ s = "Mark" /\ o = "none"

\* A variant in which a failed PDF ends the attempt with failure.
stage_aborts_failed_pdf(s, o) ==
    \/ o \in {"exception", "interrupt"}
    \/ s = "Download" /\ o \in {"no_info", "no_path"}
    \/ s = "Transcribe" /\ o = "no_segments"
    \/ s = "Mark" /\ o = "none"
    \/ s = "Render" /\ o = "pdf_failed"

\* A variant in which an empty frame mapping ends the attempt with failure.
stage_aborts_empty_mapping(s, o) ==
    \/ o \in {"exception", "interrupt"}
    \/ s = "Download" /\ o \in {"no_info", "no_path"}
    \/ s = "Transcribe" /\ o = "no_segments"
    \/ s = "Mark" /\ o = "none"
    \/ s = "ExtractFrames" /\ o = "nothing"

\* A variant in which a user interrupt is not caught and the stages go on.
stage_aborts_interrupt_ignored(s, o) ==
    \/ o = "exception"
    \/ s = "Download" /\ o \in {"no_info", "no_path"}
    \/ s = "Transcribe" /\ o = "no_segments"
    \/ s = "Mark" /\ o = "none"

stage_aborts(s, o) ==
    \/ o \in {"exception", "interrupt"}
    \/ s = "Download" /\ o \in {"no_info", "no_path"}
    \/ s = "Transcribe" /\ o = "no_segments"
    \/ s = "Mark" /\ o = "none"

\* The stage that follows s in run_conversion, "returned" after the last.
next_stage(s) ==
    IF StageIndex(s) < Len(Stages) THEN Stages[StageIndex(s) + 1] ELSE "returned"

\* A stage failed: acquisition, transcription, generation or render failure,
\* an unexpected exception or an interrupt.
IsFailure(s, o) ==
    o \in {"no_info", "no_path", "no_segments", "none", "exception", "interrupt"}

\* "if attempt < max_retries": the retry prompt is shown.
retry_asks_once_more(a) == a <= max_retries

retry_asks(a) == a < max_retries

\* The transcriber run_conversion_with_retry passes to run_conversion.
retry_handle_fresh(h) == None

retry_handle(h) == h

IsYes(answer) == answer \in {"y", "yes", ""}

IsQuit(url) == url \in {"", "q", "n"}

\* run_conversion returns (ok, transcriber): the retry loop records the attempt.
Returns(ok, dir, h_in, h_out) ==
    /\ pc' = "returned"
    /\ success' = ok
    /\ log' = Append(log, [dir |-> dir, handle_in |-> h_in,
                           handle_out |-> h_out, success |-> ok])

\* run_interactive_mode: the mode is chosen, no transcriber exists yet.
select_whisper_mode ==
    /\ pc = "select_mode"
    /\ \E choice \in {"1", "2"} :
           whisper_mode' = IF choice = "2" THEN "local" ELSE "api"
    /\ transcriber' = None
    /\ pc' = "url_prompt"
    /\ UNCHANGED <<settings, constructed, model_cache, videos, attempt, task_dirs,
                   task_dir, handle_in, started, completed, failed_stage, outcome,
                   success, log, asked>>

\* The URL prompt of run_interactive_mode; a URL enters run_conversion_with_retry.
UrlPrompt ==
    /\ pc = "url_prompt"
    /\ \E url \in {"", "n", "url"} :
           IF IsQuit(url)
           THEN /\ pc' = "clear_cache"
                /\ UNCHANGED <<videos, attempt, log, asked>>
           ELSE /\ videos < MaxVideos
                /\ videos' = videos + 1
                /\ attempt' = 1
                /\ log' = <<>>
                /\ asked' = <<>>
                /\ pc' = "call"
    /\ UNCHANGED <<settings, whisper_mode, transcriber, constructed, model_cache,
                   task_dirs, task_dir, handle_in, started, completed,
                   failed_stage, outcome, success>>

\* run_conversion up to the try block: the settings are checked and then the
\* task folder is created.
run_conversion_enter ==
    /\ pc = "call"
    /\ handle_in' = retry_handle(transcriber)
    /\ transcriber' = retry_handle(transcriber)
    /\ started' = <<>>
    /\ completed' = <<>>
    /\ failed_stage' = "none"
    /\ outcome' = "none"
    /\ IF preflight_ok
       THEN /\ task_dir' = get_next_task_id(task_dirs)
            /\ task_dirs' = task_dirs \cup {get_next_task_id(task_dirs)}
            /\ pc' = "Download"
            /\ UNCHANGED <<success, log>>
       ELSE /\ task_dir' = 0
            /\ UNCHANGED task_dirs
            /\ Returns(FALSE, 0, retry_handle(transcriber), retry_handle(transcriber))
    /\ UNCHANGED <<settings, whisper_mode, constructed, model_cache, videos,
                   attempt, asked>>

\* Whether the Transcribe stage gets as far as "if transcriber is None":
\* always when transcribe returns, and possibly before an exception.
ReachesTranscriber(s, o, built) ==
    s = "Transcribe" /\ (built \/ o \in {"ok", "no_segments"})

\* A variant that constructs a Transcriber whether or not one was passed in.
TranscriberAfter_always_new(s, o, built) ==
    IF ReachesTranscriber(s, o, built) THEN constructed + 1 ELSE transcriber

\* The transcriber of run_conversion after the stage: Transcribe constructs
\* one when none was passed in.
TranscriberAfter(s, o, built) ==
    IF ReachesTranscriber(s, o, built) /\ transcriber = None
    THEN constructed + 1
    ELSE transcriber

\* What a stage does besides producing its outcome: the Transcriber is
\* constructed, and the local mode loads the model into the module's cache
\* on its first transcription.
StageEffects(s, o, built, loaded) ==
    /\ transcriber' = TranscriberAfter(s, o, built)
    /\ constructed' = IF TranscriberAfter(s, o, built) = transcriber
                      THEN constructed ELSE constructed + 1
    /\ model_cache' = IF /\ ReachesTranscriber(s, o, built)
                         /\ whisper_mode = "local"
                         /\ (o = "ok" \/ loaded)
                      THEN model_cache \cup {"base_cpu_int8"}
                      ELSE model_cache

\* One stage of run_conversion runs to its end: it completes and the next one
\* is entered, or run_conversion returns.
RunStage(s) ==
    /\ pc = s
    /\ \E o \in Outcomes(s), built \in BOOLEAN, loaded \in BOOLEAN :
          /\ started' = Append(started, s)
          /\ outcome' = o
          /\ completed' = IF IsFailure(s, o) THEN completed ELSE Append(completed, s)
          /\ failed_stage' = IF IsFailure(s, o) THEN s ELSE "none"
          /\ StageEffects(s, o, built, loaded)
          /\ IF stage_aborts(s, o)
             THEN Returns(FALSE, task_dir, handle_in, TranscriberAfter(s, o, built))
             ELSE IF next_stage(s) = "returned"
                  THEN Returns(TRUE, task_dir, handle_in, TranscriberAfter(s, o, built))
                  ELSE /\ pc' = next_stage(s)
                       /\ UNCHANGED <<success, log>>
    /\ UNCHANGED <<settings, whisper_mode, videos, attempt, task_dirs, task_dir,
                   handle_in, asked>>

StageDownload == RunStage("Download")

StageTranscribe == RunStage("Transcribe")

StagePolish == RunStage("Polish")

StageMark == RunStage("Mark")

StageExtractFrames == RunStage("ExtractFrames")

StageRender == RunStage("Render")

\* A variant in which a conversion that failed for the last time ends the
\* session without a prompt.
RetryAfterAttempt_ends_session ==
    /\ pc = "returned"
    /\ IF success
       THEN /\ pc' = "continue_prompt"
            /\ UNCHANGED asked
       ELSE IF retry_asks(attempt)
            THEN /\ pc' = "retry_prompt"
                 /\ asked' = Append(asked, attempt)
            ELSE /\ pc' = "clear_cache"
                 /\ UNCHANGED asked
    /\ UNCHANGED <<settings, whisper_mode, transcriber, constructed, model_cache,
                   videos, attempt, task_dirs, task_dir, handle_in, started,
                   completed, failed_stage, outcome, success, log>>

\* run_conversion_with_retry after run_conversion has returned.
RetryAfterAttempt ==
    /\ pc = "returned"
    /\ IF success
       THEN /\ pc' = "continue_prompt"
            /\ UNCHANGED asked
       ELSE IF retry_asks(attempt)
            THEN /\ pc' = "retry_prompt"
                 /\ asked' = Append(asked, attempt)
            ELSE /\ pc' = "reenter_prompt"
                 /\ UNCHANGED asked
    /\ UNCHANGED <<settings, whisper_mode, transcriber, constructed, model_cache,
                   videos, attempt, task_dirs, task_dir, handle_in, started,
                   completed, failed_stage, outcome, success, log>>

\* The retry prompt: on yes the attempt counter goes up and the while
\* condition is tested again.
RetryPrompt ==
    /\ pc = "retry_prompt"
    /\ \E retry \in {"y", "", "n"} :
           IF IsYes(retry)
           THEN /\ attempt' = attempt + 1
                /\ pc' = IF attempt + 1 <= max_retries THEN "call" ELSE "reenter_prompt"
           ELSE /\ pc' = "reenter_prompt"
                /\ UNCHANGED attempt
    /\ UNCHANGED <<settings, whisper_mode, transcriber, constructed, model_cache,
                   videos, task_dirs, task_dir, handle_in, started, completed,
                   failed_stage, outcome, success, log, asked>>

\* After a success: continue with the next video?
ContinuePrompt ==
    /\ pc = "continue_prompt"
    /\ \E answer \in {"y", "n"} :
           pc' = IF answer = "n" THEN "clear_cache" ELSE "url_prompt"
    /\ UNCHANGED <<settings, whisper_mode, transcriber, constructed, model_cache,
                   videos, attempt, task_dirs, task_dir, handle_in, started,
                   completed, failed_stage, outcome, success, log, asked>>

\* After a failure: enter another link?
ReenterPrompt ==
    /\ pc = "reenter_prompt"
    /\ \E answer \in {"y", "", "n"} :
           pc' = IF IsYes(answer) THEN "url_prompt" ELSE "clear_cache"
    /\ UNCHANGED <<settings, whisper_mode, transcriber, constructed, model_cache,
                   videos, attempt, task_dirs, task_dir, handle_in, started,
                   completed, failed_stage, outcome, success, log, asked>>

\* A variant that ends the session with the model cache as it is.
clear_model_cache_keeps ==
    /\ pc = "clear_cache"
    /\ pc' = "finished"
    /\ UNCHANGED <<settings, whisper_mode, transcriber, constructed, model_cache,
                   videos, attempt, task_dirs, task_dir, handle_in, started,
                   completed, failed_stage, outcome, success, log, asked>>

\* main: the model cache is cleared when the session has ended.
clear_model_cache ==
    /\ pc = "clear_cache"
    /\ model_cache' = {}
    /\ pc' = "finished"
    /\ UNCHANGED <<settings, whisper_mode, transcriber, constructed, videos,
                   attempt, task_dirs, task_dir, handle_in, started, completed,
                   failed_stage, outcome, success, log, asked>>

Init ==
    /\ pc = "select_mode"
    /\ settings \in [llm : BOOLEAN, whisper : BOOLEAN]
    /\ whisper_mode = "unset"
    /\ transcriber = None
    /\ constructed = 0
    /\ model_cache = {}
    /\ videos = 0
    /\ attempt = 0
    /\ task_dirs \in InitialTaskDirs
    /\ task_dir = 0
    /\ handle_in = None
    /\ started = <<>>
    /\ completed = <<>>
    /\ failed_stage = "none"
    /\ outcome = "none"
    /\ success = FALSE
    /\ log = <<>>
    /\ asked = <<>>
    /\ MergeIdle
    /\ MarksIdle
    /\ RaceIdle

Next ==
    \/ select_whisper_mode /\ UNCHANGED <<mergeVars, markVars, raceVars>>
    \/ UrlPrompt /\ UNCHANGED <<mergeVars, markVars, raceVars>>
    \/ run_conversion_enter /\ UNCHANGED <<mergeVars, markVars, raceVars>>
    \/ StageDownload /\ UNCHANGED <<mergeVars, markVars, raceVars>>
    \/ StageTranscribe /\ UNCHANGED <<mergeVars, markVars, raceVars>>
    \/ StagePolish /\ UNCHANGED <<mergeVars, markVars, raceVars>>
    \/ StageMark /\ UNCHANGED <<mergeVars, markVars, raceVars>>
    \/ StageExtractFrames /\ UNCHANGED <<mergeVars, markVars, raceVars>>
    \/ StageRender /\ UNCHANGED <<mergeVars, markVars, raceVars>>
    \/ RetryAfterAttempt /\ UNCHANGED <<mergeVars, markVars, raceVars>>
    \/ RetryPrompt /\ UNCHANGED <<mergeVars, markVars, raceVars>>
    \/ ContinuePrompt /\ UNCHANGED <<mergeVars, markVars, raceVars>>
    \/ ReenterPrompt /\ UNCHANGED <<mergeVars, markVars, raceVars>>
    \/ clear_model_cache /\ UNCHANGED <<mergeVars, markVars, raceVars>>

Spec == Init /\ [][Next]_vars

\* Every step of the program is eventually taken and every prompt answered.
FairSpec == Spec /\ WF_vars(Next)

----------------------------------------------------------------------------
(* Claims about the session, the retry loop and run_conversion.            *)

\* Inside one call of run_conversion_with_retry.
InRetry == pc \in StageNames \cup {"call", "returned", "retry_prompt"}

\* Task directories of the attempts logged before attempt number i.
EarlierDirs(i) == {log[j].dir : j \in 1..(i - 1)} \ {0}

\* C1: within one run_conversion attempt the stages start in the order
\* Download, Transcribe, Polish, Mark, ExtractFrames, Render; a stage is
\* entered only when every earlier stage of the attempt has completed, none is
\* skipped, and once a stage has failed no later stage starts and the attempt
\* returns failure.
C1_StageOrder ==
    /\ IsPrefix(started, Stages)
    /\ IsPrefix(completed, started)
    /\ Len(started) <= Len(completed) + 1
    /\ pc \in StageNames =>
          /\ failed_stage = "none"
          /\ completed = started
          /\ started = SubSeq(Stages, 1, StageIndex(pc) - 1)
    /\ failed_stage # "none" =>
          /\ started # <<>>
          /\ Last(started) = failed_stage
          /\ completed = SubSeq(started, 1, Len(started) - 1)
          /\ pc \notin StageNames
          /\ ~success
    /\ (pc = "returned" /\ success) => (completed = Stages /\ failed_stage = "none")
    /\ (pc = "returned" /\ ~success /\ started # <<>>) => failed_stage = Last(started)

\* C1 witness: an attempt failed in its third stage and returned failure.
C1_Witness ==
    /\ pc = "returned"
    /\ ~success
    /\ failed_stage = "Polish"
    /\ started = <<"Download", "Transcribe", "Polish">>

\* The retry loop's bookkeeping at every point of one call.
C2_Bounded ==
    /\ Len(log) <= max_retries
    /\ \A i \in 1..(Len(log) - 1) : ~log[i].success
    /\ Len(asked) <= max_retries - 1
    /\ \A k \in DOMAIN asked : asked[k] = k /\ k <= Len(log) /\ ~log[k].success
    /\ InRetry =>
          /\ attempt \in 1..max_retries
          /\ Len(log) = IF pc \in {"returned", "retry_prompt"} THEN attempt ELSE attempt - 1
          /\ Len(asked) = IF pc = "retry_prompt" THEN attempt ELSE attempt - 1
    /\ pc = "continue_prompt" => (log # <<>> /\ Last(log).success)
    /\ pc = "reenter_prompt" =>
          /\ log # <<>> /\ ~Last(log).success
          /\ Len(log) = max_retries => asked = <<1, 2>>
          /\ Len(log) < max_retries => Len(asked) = Len(log)

\* C2: one call of run_conversion_with_retry runs run_conversion at most
\* max_retries = 3 times, stops at the first success, shows the retry prompt
\* only after failed attempts 1 and 2, returns failure after the third failure
\* without asking, and always returns.
C2_BoundedRetry == [](C2_Bounded) /\ (InRetry ~> ~InRetry)

\* C2 witness: three attempts failed; the call returned after two prompts.
C2_Witness ==
    /\ pc = "reenter_prompt"
    /\ Len(log) = max_retries
    /\ asked = <<1, 2>>

\* C3: a retry passes run_conversion the transcriber the failed attempt
\* returned, an existing transcriber is never replaced by a new one, and the
\* task directory of the retry is none of the directories of the earlier
\* attempts; the stages of a retry only run inside such a directory.
C3_RetryReusesHandleInFreshDir ==
    /\ \A i \in 2..Len(log) :
          /\ log[i].handle_in = log[i - 1].handle_out
          /\ log[i].handle_in # None => log[i].handle_out = log[i].handle_in
          /\ log[i].dir \notin EarlierDirs(i)
    /\ (pc \in StageNames /\ log # <<>>) =>
          /\ handle_in = Last(log).handle_out
          /\ handle_in # None => transcriber = handle_in
          /\ task_dir # 0
          /\ task_dir \notin EarlierDirs(Len(log) + 1)

\* C3 witness: the second attempt ran with the transcriber the first attempt
\* had constructed, in a directory of its own.
C3_Witness ==
    /\ Len(log) >= 2
    /\ log[1].handle_out # None
    /\ log[2].handle_in = log[1].handle_out
    /\ log[1].dir # 0
    /\ log[2].dir # 0

\* C4 as stated: the attempts of one run_conversion_with_retry call share one
\* task directory.
C4_SharedWorkspace ==
    \A i, j \in DOMAIN log :
        (log[i].dir # 0 /\ log[j].dir # 0) => log[i].dir = log[j].dir

\* C4 amended: a task directory is created once per attempt, by every attempt
\* that passes the pre-flight checks, and no two attempts of one call use the
\* same directory.
C4_WorkspacePerAttempt ==
    /\ \A i \in DOMAIN log :
          /\ log[i].dir # 0 <=> preflight_ok
          /\ log[i].dir # 0 => log[i].dir \in task_dirs
    /\ \A i, j \in DOMAIN log :
          (i # j /\ log[i].dir # 0) => log[i].dir # log[j].dir
    /\ pc \in StageNames => (task_dir \in task_dirs /\ task_dir = Max(task_dirs))

\* C4 witness: three attempts of one call, each in its own directory.
C4_Witness ==
    /\ Len(log) = 3
    /\ Cardinality({log[i].dir : i \in DOMAIN log}) = 3
    /\ \A i \in DOMAIN log : log[i].dir # 0

----------------------------------------------------------------------------
(* Transcriber.merge_segments_by_rule (transcriber.py).                    *)

\* The parameters run_conversion passes: 8.0 s, 20.0 s and 0.5 s, in half seconds.
cli_min_duration == 16

cli_max_duration == 40

cli_merge_gap == 1

CliParams == [min_duration |-> cli_min_duration, max_duration |-> cli_max_duration,
              merge_gap |-> cli_merge_gap]

\* Parameter values the sweep is checked with.
ParamSets == [min_duration : {4, cli_min_duration},
              max_duration : {12, cli_max_duration},
              merge_gap : {cli_merge_gap, 5}]

\* (start, end) of the input segments, in half seconds: 0-3 s, 3-5 s, 5-21 s
\* and an empty span at 5 s.  Gaps of 0 and 2 s and overlaps occur.
Spans == {<<0, 6>>, <<6, 10>>, <<10, 42>>, <<10, 10>>}

\* Texts of the input segments: words, a sentence, the empty text, and a
\* full-width full stop followed by a blank.
Texts == {<<"H", "i">>, <<"t", "h", "e", "r", "e">>, <<"o", "k", ".">>, <<>>,
          <<"U+3002", " ">>}

\* TranscriptSegment values.
SegSet == {[start |-> sp[1], end |-> sp[2], text |-> t] : sp \in Spans, t \in Texts}

\* One transcription: at most MaxSegs segments in non-decreasing start order.
SegmentInputs ==
    UNION {{q \in [1..n -> SegSet] :
               \A k \in 1..(n - 1) : q[k].start <= q[k + 1].start} : n \in 0..MaxSegs}

\* end_punctuation of merge_segments_by_rule; the three full-width marks are
\* written by their code points (U+3002 is the ideographic full stop).
end_punctuation == {"U+3002", "U+FF01", "U+FF1F", ".", "!", "?"}

IsSpace(c) == c \in {" ", "\t", "\n"}

\* str.strip(): leading and trailing whitespace removed.
RECURSIVE lstrip(_)
lstrip(t) == IF t # <<>> /\ IsSpace(Head(t)) THEN lstrip(Tail(t)) ELSE t

RECURSIVE rstrip(_)
rstrip(t) ==
    IF t # <<>> /\ IsSpace(Last(t)) THEN rstrip(SubSeq(t, 1, Len(t) - 1)) ELSE t

strip(t) == lstrip(rstrip(t))

\* "current.text.strip() and current.text.strip()[-1] in end_punctuation"
ends_with_punctuation_nostrip(text) ==
    text # <<>> /\ Last(text) \in end_punctuation

ends_with_punctuation(text) ==
    strip(text) # <<>> /\ Last(strip(text)) \in end_punctuation

\* should_merge of one step of the sweep, after the punctuation override.
should_merge_both(cur, nxt, p) ==
    /\ cur.end - cur.start < p.min_duration
    /\ nxt.start - cur.end <= p.merge_gap /\ nxt.end - cur.start < p.max_duration
    /\ ~ends_with_punctuation(cur.text)

\* A variant without the rule for a current segment that is too short.
should_merge_gap_only(cur, nxt, p) ==
    /\ nxt.start - cur.end <= p.merge_gap /\ nxt.end - cur.start < p.max_duration
    /\ ~ends_with_punctuation(cur.text)

should_merge(cur, nxt, p) ==
    /\ \/ cur.end - cur.start < p.min_duration
       \/ nxt.start - cur.end <= p.merge_gap /\ nxt.end - cur.start < p.max_duration
    /\ ~ends_with_punctuation(cur.text)

\* The TranscriptSegment that replaces current when the two are merged.
merge_segment_nospace(cur, nxt) ==
    [start |-> cur.start, end |-> nxt.end, text |-> cur.text \o nxt.text]

merge_segment(cur, nxt) ==
    [start |-> cur.start, end |-> nxt.end, text |-> cur.text \o <<" ">> \o nxt.text]

\* The list merged after a step that merged: nothing is appended.
merged_after_merge_appending(m, cur) == Append(m, cur)

merged_after_merge(m, cur) == m

\* "if not segments: return []", else "merged = []; current = segments[0]".
MergeStart ==
    /\ mpc = "start"
    /\ IF segments = <<>>
       THEN /\ mpc' = "done"
            /\ UNCHANGED <<idx, current>>
       ELSE /\ mpc' = "loop"
            /\ current' = segments[1]
            /\ idx' = 2
    /\ merged' = <<>>
    /\ UNCHANGED <<segments, params, decisions>>

\* One iteration of "for i in range(1, len(segments))".
MergeStep ==
    /\ mpc = "loop"
    /\ idx <= Len(segments)
    /\ LET next_seg == segments[idx]
           merge == should_merge(current, next_seg, params)
       IN  /\ decisions' = Append(decisions, merge)
           /\ IF merge
              THEN /\ current' = merge_segment(current, next_seg)
                   /\ merged' = merged_after_merge(merged, current)
              ELSE /\ merged' = Append(merged, current)
                   /\ current' = next_seg
    /\ idx' = idx + 1
    /\ UNCHANGED <<mpc, segments, params>>

\* After the loop: "merged.append(current); return merged".
MergeFinish ==
    /\ mpc = "loop"
    /\ idx > Len(segments)
    /\ merged' = Append(merged, current)
    /\ mpc' = "done"
    /\ UNCHANGED <<segments, params, idx, current, decisions>>

InitMerge ==
    /\ OrchIdle
    /\ MarksIdle
    /\ RaceIdle
    /\ mpc = "start"
    /\ segments \in SegmentInputs
    /\ params \in ParamSets
    /\ idx = 0
    /\ current = NoSegment
    /\ merged = <<>>
    /\ decisions = <<>>

NextMerge ==
    \/ MergeStart /\ UNCHANGED <<orchVars, markVars, raceVars>>
    \/ MergeStep /\ UNCHANGED <<orchVars, markVars, raceVars>>
    \/ MergeFinish /\ UNCHANGED <<orchVars, markVars, raceVars>>

SpecMerge == InitMerge /\ [][NextMerge]_vars

----------------------------------------------------------------------------
(* Claims about merge_segments_by_rule.                                    *)

\* The texts of a segment list joined with single spaces.
RECURSIVE JoinTexts(_)
JoinTexts(segs) ==
    IF segs = <<>> THEN <<>>
    ELSE IF Len(segs) = 1 THEN segs[1].text
    ELSE segs[1].text \o <<" ">> \o JoinTexts(Tail(segs))

\* The sentence-final marks of the specification.
SentenceMarks == {"U+3002", ".", "!", "?", "U+FF01", "U+FF1F"}

\* Positions of the characters of a text that are not whitespace.
Inked(t) == {k \in DOMAIN t : t[k] \notin {" ", "\t", "\n"}}

\* The trimmed text ends in a sentence-final mark.
TrimmedEndsInMark(t) == Inked(t) # {} /\ t[Max(Inked(t))] \in SentenceMarks

IsSuffix(s, t) == Len(s) <= Len(t) /\ s = SubSeq(t, Len(t) - Len(s) + 1, Len(t))

\* C5: merge_segments_by_rule loses no text: the output texts joined with
\* single spaces are the input texts joined with single spaces in their
\* original order, and an empty input gives an empty output; during the sweep
\* the same holds of the part of the input read so far.
C5_NoTextLost ==
    /\ mpc = "done" => JoinTexts(merged) = JoinTexts(segments)
    /\ (mpc = "done" /\ segments = <<>>) => merged = <<>>
    /\ mpc = "loop" =>
          JoinTexts(Append(merged, current)) = JoinTexts(SubSeq(segments, 1, idx - 1))

\* C5 witness: three segments with three different texts became two.
C5_Witness ==
    /\ mpc = "done"
    /\ Len(segments) = 3
    /\ Cardinality({segments[k].text : k \in DOMAIN segments}) = 3
    /\ Len(merged) = 2

\* C6: an input segment whose trimmed text ends in a sentence-final mark is
\* never the left half of a merge: the step that reads the next input segment
\* does not merge, and in the output that next segment begins an output
\* segment that directly follows the one ending with the punctuated segment.
C6_PunctuationBoundary ==
    /\ \A k \in DOMAIN decisions :
          TrimmedEndsInMark(segments[k].text) => ~decisions[k]
    /\ mpc = "done" =>
          \A k \in 1..(Len(segments) - 1) :
              TrimmedEndsInMark(segments[k].text) =>
                  \E j \in 2..Len(merged) :
                      /\ merged[j].start = segments[k + 1].start
                      /\ IsPrefix(segments[k + 1].text, merged[j].text)
                      /\ merged[j - 1].end = segments[k].end
                      /\ IsSuffix(segments[k].text, merged[j - 1].text)

\* C6 witness: the second segment ends a sentence, was merged onto the first,
\* the two together are still shorter than min_duration, and the third
\* segment begins a new output segment.
C6_Witness ==
    /\ mpc = "done"
    /\ decisions = <<TRUE, FALSE>>
    /\ TrimmedEndsInMark(segments[2].text)
    /\ merged[1].end - merged[1].start < params.min_duration
    /\ segments[3].start - segments[2].end <= params.merge_gap

\* The example of the specification: (0,3,"Hi"), (3,5,"there"), (5,21,"ok.").
C7_Input ==
    <<[start |-> 0, end |-> 6, text |-> <<"H", "i">>],
      [start |-> 6, end |-> 10, text |-> <<"t", "h", "e", "r", "e">>],
      [start |-> 10, end |-> 42, text |-> <<"o", "k", ".">>]>>

C7_Case == mpc = "done" /\ segments = C7_Input /\ params = CliParams

\* C7 as stated: with min_duration 8, max_duration 20 and merge_gap 0.5 the
\* example gives two segments, (0,5,"Hi there") and (5,21,"ok.").
C7_TwoSegments ==
    C7_Case =>
        merged = <<[start |-> 0, end |-> 10,
                    text |-> <<"H", "i", " ", "t", "h", "e", "r", "e">>],
                   [start |-> 10, end |-> 42, text |-> <<"o", "k", ".">>]>>

\* C7 amended: the example gives one segment, (0,21,"Hi there ok."): the
\* accumulated segment (0,5) is shorter than min_duration, so the third
\* segment is merged as well.
C7_OneSegment ==
    C7_Case =>
        merged = <<[start |-> 0, end |-> 42,
                    text |-> <<"H", "i", " ", "t", "h", "e", "r", "e", " ",
                               "o", "k", ".">>]>>

\* C7 witness: the sweep over the example has ended, both steps merged.
C7_Witness == C7_Case /\ decisions = <<TRUE, TRUE>>

\* C8: the output never has more segments than the input; it has as many as
\* the input exactly when no step of the sweep found current and the next
\* segment to qualify for merging (each merging step makes it one shorter).
C8_OutputLength ==
    mpc = "done" =>
        /\ Len(merged) <= Len(segments)
        /\ Len(decisions) = IF segments = <<>> THEN 0 ELSE Len(segments) - 1
        /\ Len(merged) = Len(segments) <=> \A k \in DOMAIN decisions : ~decisions[k]
        /\ Len(merged) + Cardinality({k \in DOMAIN decisions : decisions[k]})
              = Len(segments)

\* C8 witness: three segments, no step merged, three segments returned.
C8_Witness ==
    /\ mpc = "done"
    /\ Len(segments) = 3
    /\ decisions = <<FALSE, FALSE>>
    /\ Len(merged) = 3

----------------------------------------------------------------------------
(* MarkdownGenerator._replace_image_marks (markdown_generator.py).         *)
(*                                                                         *)
(* A text is a sequence of lexemes [k, a, b].  k is the lexeme's own text  *)
(* for a piece of punctuation or a keyword; "MM:SS" is a time stamp of two *)
(* digits, a colon and two digits (a minutes, b seconds), "MM_SS" the same *)
(* with an underscore; "digits" is a run of b digits of value a; "word" is *)
(* a word without any of the characters the patterns look for.             *)

Lit(s) == [k |-> s, a |-> 0, b |-> 0]

Word(n) == [k |-> "word", a |-> n, b |-> 0]

Stamp(mm, ss) == [k |-> "MM:SS", a |-> mm, b |-> ss]

Digits(value, width) == [k |-> "digits", a |-> value, b |-> width]

\* The time stamps of the documents: 01:30 and 02:05.
TimeStamps == {Stamp(1, 30), Stamp(2, 5)}

\* Descriptions of image references: empty, a word, a time stamp.
Descs == {<<>>, <<Word(1)>>, <<Stamp(1, 30)>>}

\* ![desc](images/MM:SS.jpg)
CanonicalRef(desc, ts) ==
    <<Lit("!"), Lit("[")>> \o desc \o <<Lit("]"), Lit("(images/"), ts, Lit(".jpg"), Lit(")")>>

\* ![desc](images/frame_<digits>.jpg)
LegacyRef(desc, num) ==
    <<Lit("!"), Lit("[")>> \o desc
        \o <<Lit("]"), Lit("(images/"), Lit("frame_"), num, Lit(".jpg"), Lit(")")>>

\* [IMAGE:<blanks>MM:SS]
ImageMark(blanks, ts) ==
    <<Lit("["), Lit("IMAGE:")>> \o [n \in 1..blanks |-> Lit(" ")] \o <<ts, Lit("]")>>

\* The pieces a document is put together from.
Items ==
    {CanonicalRef(d, t) : d \in Descs, t \in TimeStamps}
        \cup {LegacyRef(<<Word(1)>>, n) : n \in {Digits(7, 1), Digits(7, 3)}}
        \cup {ImageMark(n, t) : n \in {0, 1}, t \in TimeStamps}
        \cup {<<Word(2)>>, <<Lit(" ")>>}

\* Documents: at most MaxItems pieces.
DocInputs == UNION {[1..n -> Items] : n \in 0..MaxItems}

\* extract_frames: the frame of time stamp MM:SS is written to MM_SS.jpg.
colon_to_underscore(ts) == [k |-> "MM_SS", a |-> ts.a, b |-> ts.b]

frame_path(ts) ==
    [parent |-> "output/images", name |-> <<colon_to_underscore(ts), Lit(".jpg")>>]

\* The frame mappings extract_frames can return: some of the time stamps.
FrameMaps == {[t \in K |-> frame_path(t)] : K \in SUBSET TimeStamps}

\* The key replace_timestamp_image looks up: the colon form.
lookup_key_underscore(timestamp) == colon_to_underscore(timestamp)

lookup_key(timestamp) == timestamp

At(text, i, lex) == i \in DOMAIN text /\ text[i] = lex

KindAt(text, i, kind) == i \in DOMAIN text /\ text[i].k = kind

Min(S) == CHOOSE x \in S : \A y \in S : x <= y

\* Where "[^\]]*" started at i stops: the first "]" at or after i, 0 if none.
DescEnd(text, i) ==
    LET closing == {j \in i..Len(text) : text[j] = Lit("]")}
    IN  IF closing = {} THEN 0 ELSE Min(closing)

\* Where "\s*" started at i stops: the first lexeme that is no whitespace.
BlanksEnd(text, i) ==
    LET inked == {j \in i..Len(text) : text[j] # Lit(" ")}
    IN  IF inked = {} THEN Len(text) + 1 ELSE Min(inked)

\* !\[([^\]]*)\]\(images/frame_(\d+)\.jpg\) matched at i: the position of
\* its last lexeme, 0 when it does not match there.
LegacyMatch(text, i) ==
    IF At(text, i, Lit("!")) /\ At(text, i + 1, Lit("["))
    THEN LET j == DescEnd(text, i + 2)
         IN  IF /\ j # 0
                /\ At(text, j + 1, Lit("(images/"))
                /\ At(text, j + 2, Lit("frame_"))
                /\ KindAt(text, j + 3, "digits")
                /\ At(text, j + 4, Lit(".jpg"))
                /\ At(text, j + 5, Lit(")"))
             THEN j + 5 ELSE 0
    ELSE 0

\* !\[([^\]]*)\]\(images/(\d{2}:\d{2})\.jpg\) matched at i.
TimestampMatch(text, i) ==
    IF At(text, i, Lit("!")) /\ At(text, i + 1, Lit("["))
    THEN LET j == DescEnd(text, i + 2)
         IN  IF /\ j # 0
                /\ At(text, j + 1, Lit("(images/"))
                /\ KindAt(text, j + 2, "MM:SS")
                /\ At(text, j + 3, Lit(".jpg"))
                /\ At(text, j + 4, Lit(")"))
             THEN j + 4 ELSE 0
    ELSE 0

\* \[IMAGE:\s*(\d{2}:\d{2})\] matched at i.
ImageMatch(text, i) ==
    IF At(text, i, Lit("[")) /\ At(text, i + 1, Lit("IMAGE:"))
    THEN LET j == BlanksEnd(text, i + 2)
         IN  IF KindAt(text, j, "MM:SS") /\ At(text, j + 1, Lit("]"))
             THEN j + 1 ELSE 0
    ELSE 0

\* A variant that writes the index with one more leading zero.
legacy_replacement_padding(desc, num) ==
    <<Lit("!"), Lit("[")>> \o desc
        \o <<Lit("]"), Lit("(images/"), Lit("frame_"), Digits(num.a, num.b + 1),
             Lit(".jpg"), Lit(")")>>

\* r'![\1](images/frame_\2.jpg)'
legacy_replacement(desc, num) ==
    <<Lit("!"), Lit("[")>> \o desc
        \o <<Lit("]"), Lit("(images/"), Lit("frame_"), num, Lit(".jpg"), Lit(")")>>

\* A variant that drops the marker instead of writing the comment.
unresolved_dropped(timestamp) == <<>>

\* f"<!-- [IMAGE: {timestamp}] -->"
unresolved_comment(timestamp) ==
    <<Lit("<!-- "), Lit("["), Lit("IMAGE:"), Lit(" "), timestamp, Lit("]"), Lit(" -->")>>

\* replace_timestamp_image
replace_timestamp_image(desc, timestamp, fm) ==
    IF lookup_key(timestamp) \in DOMAIN fm
    THEN <<Lit("!"), Lit("[")>> \o desc \o <<Lit("]"), Lit("(images/")>>
             \o fm[lookup_key(timestamp)].name \o <<Lit(")")>>
    ELSE unresolved_comment(timestamp)

\* replace
replace(timestamp, fm) ==
    IF timestamp \in DOMAIN fm
    THEN <<Lit("!"), Lit("["), timestamp, Lit("]"), Lit("(images/")>>
             \o fm[timestamp].name \o <<Lit(")"), Lit("\n*"), timestamp, Lit("*")>>
    ELSE unresolved_comment(timestamp)

\* re.sub of the three patterns: leftmost matches, left to right, the text
\* between them copied.
RECURSIVE sub_legacy(_, _)
sub_legacy(text, i) ==
    IF i > Len(text) THEN <<>>
    ELSE LET e == LegacyMatch(text, i)
         IN  IF e # 0
             THEN legacy_replacement(SubSeq(text, i + 2, e - 6), text[e - 2])
                      \o sub_legacy(text, e + 1)
             ELSE <<text[i]>> \o sub_legacy(text, i + 1)

RECURSIVE sub_timestamp(_, _, _)
sub_timestamp(text, i, fm) ==
    IF i > Len(text) THEN <<>>
    ELSE LET e == TimestampMatch(text, i)
         IN  IF e # 0
             THEN replace_timestamp_image(SubSeq(text, i + 2, e - 5), text[e - 2], fm)
                      \o sub_timestamp(text, e + 1, fm)
             ELSE <<text[i]>> \o sub_timestamp(text, i + 1, fm)

RECURSIVE sub_image(_, _, _)
sub_image(text, i, fm) ==
    IF i > Len(text) THEN <<>>
    ELSE LET e == ImageMatch(text, i)
         IN  IF e # 0
             THEN replace(text[e - 1], fm) \o sub_image(text, e + 1, fm)
             ELSE <<text[i]>> \o sub_image(text, i + 1, fm)

\* The three passes, and _replace_image_marks as a whole.
pass_legacy(text) == sub_legacy(text, 1)

pass_timestamp(text, fm) == sub_timestamp(text, 1, fm)

pass_image(text, fm) == sub_image(text, 1, fm)

replace_image_marks(text, fm) == pass_image(pass_timestamp(pass_legacy(text), fm), fm)

PassLegacy ==
    /\ rpc = "start"
    /\ doc' = pass_legacy(doc)
    /\ rpc' = "legacy_done"
    /\ UNCHANGED <<content, frame_mapping, image_plans, video_intro>>

PassTimestamp ==
    /\ rpc = "legacy_done"
    /\ doc' = pass_timestamp(doc, frame_mapping)
    /\ rpc' = "timestamp_done"
    /\ UNCHANGED <<content, frame_mapping, image_plans, video_intro>>

PassImage ==
    /\ rpc = "timestamp_done"
    /\ doc' = pass_image(doc, frame_mapping)
    /\ rpc' = "done"
    /\ UNCHANGED <<content, frame_mapping, image_plans, video_intro>>

InitMarks ==
    /\ OrchIdle
    /\ MergeIdle
    /\ RaceIdle
    /\ rpc = "start"
    /\ content \in DocInputs
    /\ frame_mapping \in FrameMaps
    /\ doc = Flatten(content)
    /\ image_plans = <<>>
    /\ video_intro = <<>>

NextMarks ==
    \/ PassLegacy /\ UNCHANGED <<orchVars, mergeVars, raceVars>>
    \/ PassTimestamp /\ UNCHANGED <<orchVars, mergeVars, raceVars>>
    \/ PassImage /\ UNCHANGED <<orchVars, mergeVars, raceVars>>

SpecMarks == InitMarks /\ [][NextMarks]_vars

----------------------------------------------------------------------------
(* Claims about _replace_image_marks.                                      *)

\* Piece k of the document is a canonical reference ![desc](images/MM:SS.jpg).
RefStamp(item) == item[Len(item) - 2]

RefDesc(item) == SubSeq(item, 3, Len(item) - 5)

IsCanonicalRef(item) ==
    /\ Len(item) >= 7
    /\ RefStamp(item).k = "MM:SS"
    /\ item = <<Lit("!"), Lit("[")>> \o RefDesc(item)
                  \o <<Lit("]"), Lit("(images/"), RefStamp(item), Lit(".jpg"), Lit(")")>>

\* What _replace_image_marks returns for the pieces before and after piece k.
OutBefore(k) == replace_image_marks(Flatten(SubSeq(content, 1, k - 1)), frame_mapping)

OutAfter(k) == replace_image_marks(Flatten(SubSeq(content, k + 1, Len(content))), frame_mapping)

\* <!-- [IMAGE: MM:SS] -->, once.
HiddenComment(ts) ==
    <<Lit("<!-- "), Lit("["), Lit("IMAGE:"), Lit(" "), ts, Lit("]"), Lit(" -->")>>

\* ![desc](images/<file name>)
ResolvedRef(desc, file_name) ==
    <<Lit("!"), Lit("[")>> \o desc \o <<Lit("]"), Lit("(images/")>> \o file_name \o <<Lit(")")>>

\* C9: every canonical reference ![desc](images/MM:SS.jpg) whose MM:SS is
\* not a key of the frame mapping has become, in the returned text, exactly
\* the comment <!-- [IMAGE: MM:SS] -->: the time stamp inside one comment,
\* not wrapped a second time by the [IMAGE: MM:SS] pass.
C9_UnresolvedBecomesOneComment ==
    rpc = "done" =>
        \A k \in DOMAIN content :
            (IsCanonicalRef(content[k]) /\ RefStamp(content[k]) \notin DOMAIN frame_mapping)
                => doc = OutBefore(k) \o HiddenComment(RefStamp(content[k])) \o OutAfter(k)

MarkerMatch(text, i) ==
    IF LegacyMatch(text, i) # 0 THEN LegacyMatch(text, i)
    ELSE IF TimestampMatch(text, i) # 0 THEN TimestampMatch(text, i)
    ELSE ImageMatch(text, i)

RECURSIVE CountMarkers(_, _)
CountMarkers(text, i) ==
    IF i > Len(text) THEN 0
    ELSE IF MarkerMatch(text, i) # 0 THEN 1 + CountMarkers(text, MarkerMatch(text, i) + 1)
    ELSE CountMarkers(text, i + 1)

\* An image reference ![..](images/..) at i: the position of its ")".
ImageRefMatch(text, i) ==
    IF At(text, i, Lit("!")) /\ At(text, i + 1, Lit("["))
    THEN LET j == DescEnd(text, i + 2)
             closing == {c \in (j + 2)..Len(text) : text[c] = Lit(")")}
         IN  IF j # 0 /\ At(text, j + 1, Lit("(images/")) /\ closing # {}
             THEN Min(closing) ELSE 0
    ELSE 0

\* An unresolved-image comment <!-- [IMAGE: MM:SS] --> at i.
CommentMatch(text, i) ==
    IF /\ i + 6 <= Len(text)
       /\ text[i + 4].k = "MM:SS"
       /\ SubSeq(text, i, i + 6) = HiddenComment(text[i + 4])
    THEN i + 6 ELSE 0

OutputMatch(text, i) ==
    IF ImageRefMatch(text, i) # 0 THEN ImageRefMatch(text, i) ELSE CommentMatch(text, i)

RECURSIVE CountOutputs(_, _)
CountOutputs(text, i) ==
    IF i > Len(text) THEN 0
    ELSE IF OutputMatch(text, i) # 0 THEN 1 + CountOutputs(text, OutputMatch(text, i) + 1)
    ELSE CountOutputs(text, i + 1)

\* C11: in the text _replace_image_marks returns, the image references and
\* the unresolved-image comments are together as many as the markers
\* recognized in its input: no marker is deleted, none becomes two outputs.
C11_NoMarkerLost ==
    rpc = "done" => CountOutputs(doc, 1) = CountMarkers(Flatten(content), 1)

\* An unresolved canonical reference and a resolved [IMAGE: 01:30] marker:
\* two markers in, one comment and one image reference out.
C11_Witness ==
    /\ rpc = "done"
    /\ content = <<CanonicalRef(<<Word(1)>>, Stamp(2, 5)), ImageMark(1, Stamp(1, 30))>>
    /\ DOMAIN frame_mapping = {Stamp(1, 30)}
    /\ CountMarkers(Flatten(content), 1) = 2
    /\ CountOutputs(doc, 1) = 2

----------------------------------------------------------------------------
(* One attempt from the Mark stage to its return, with its data: the       *)
(* marked text and the image plans (llm_processor.py), the frame mapping   *)
(* (frame_extractor.py) and the generated document (markdown_generator.py).*)

\* Number of decimal digits of n.
NumDigits(n) == IF n < 10 THEN 1 ELSE IF n < 100 THEN 2 ELSE IF n < 1000 THEN 3 ELSE 4

\* int(num): the value of a run of digits, its leading zeros dropped.
int_of(num) == num.a

\* f"{n:03d}": at least three digits, padded with zeros.
format_03d(n) == Digits(n, Max({3, NumDigits(n)}))

\* f"frame_{int(num):03d}": the time stamp of a legacy reference's plan.
legacy_key(num) ==
    [k |-> "frame_NNN", a |-> format_03d(int_of(num)).a, b |-> format_03d(int_of(num)).b]

ImagePlan(timestamp, description) == [timestamp |-> timestamp, description |-> description]

\* re.findall(pattern_new, content), each match made a plan.
RECURSIVE findall_new(_, _)
findall_new(text, i) ==
    IF i > Len(text) THEN <<>>
    ELSE LET e == TimestampMatch(text, i)
         IN  IF e # 0
             THEN <<ImagePlan(text[e - 2], SubSeq(text, i + 2, e - 5))>> \o findall_new(text, e + 1)
             ELSE findall_new(text, i + 1)

\* re.findall(pattern_old, content), each match made a plan.
RECURSIVE findall_old(_, _)
findall_old(text, i) ==
    IF i > Len(text) THEN <<>>
    ELSE LET e == LegacyMatch(text, i)
         IN  IF e # 0
             THEN <<ImagePlan(legacy_key(text[e - 2]), SubSeq(text, i + 2, e - 6))>>
                      \o findall_old(text, e + 1)
             ELSE findall_old(text, i + 1)

\* _extract_image_plans_from_content: the legacy form only "if not plans".
extract_image_plans_additive(text) == findall_new(text, 1) \o findall_old(text, 1)

extract_image_plans(text) ==
    IF findall_new(text, 1) # <<>> THEN findall_new(text, 1) ELSE findall_old(text, 1)

\* The texts get_video_intro returns: a sentence, or one holding a marker.
Intros == {<<Word(3)>>, <<Word(3)>> \o ImageMark(1, Stamp(1, 30))}

\* _build_document: the header (title, source link, duration, uploader, the
\* introduction between two rules) followed by the content.
build_document(title, intro, text) ==
    <<Lit("# ")>> \o title
        \o <<Word(4), Lit("["), Word(5), Lit("]"), Lit("("), Word(5), Lit(")"),
             Word(6), Stamp(3, 20), Word(7), Word(8), Lit("---")>>
        \o intro \o <<Lit("---")>> \o text

\* The title of the video.
VideoTitle == <<Word(9)>>

\* MarkdownGenerator.generate: the document is built, then its marks replaced.
generate(title, intro, text, fm) == replace_image_marks(build_document(title, intro, text), fm)

\* The time stamps cli.py hands to extract_frames.
Timestamps(plans) == {plans[n].timestamp : n \in DOMAIN plans}

\* extract_frames: a time stamp gets into the result when its frame was
\* written; ffmpeg has no frame for a position that is not a time
\* (frame_NNN), so only MM:SS stamps can succeed.
extract_frames(timestamps) ==
    {[t \in K |-> frame_path(t)] : K \in SUBSET {t \in timestamps : t.k = "MM:SS"}}

\* The outcome of the ExtractFrames stage that goes with a result.
FramesOutcome(timestamps, fm) ==
    IF DOMAIN fm = {} THEN "nothing"
    ELSE IF DOMAIN fm = timestamps THEN "all" ELSE "partial"

\* Stage 4 with its data: add_image_markers returns the marked text and the
\* plans extracted from it.
DocMark ==
    /\ StageMark
    /\ IF outcome' = "ok"
       THEN \E c \in DocInputs \ {<<>>} :
                /\ content' = c
                /\ image_plans' = extract_image_plans(Flatten(c))
       ELSE IF outcome' = "empty"
            THEN content' = <<>> /\ image_plans' = <<>>
            ELSE UNCHANGED <<content, image_plans>>
    /\ UNCHANGED <<rpc, frame_mapping, doc, video_intro>>

\* Stage 5 with its data: the frames of the plans' time stamps are extracted.
DocExtractFrames ==
    /\ StageExtractFrames
    /\ IF outcome' \in {"all", "partial", "nothing"}
       THEN \E fm \in extract_frames(Timestamps(image_plans)) :
                /\ FramesOutcome(Timestamps(image_plans), fm) = outcome'
                /\ frame_mapping' = fm
       ELSE UNCHANGED frame_mapping
    /\ UNCHANGED <<rpc, content, doc, image_plans, video_intro>>

\* Stage 6 with its data: the Markdown document is generated and written.
DocRender ==
    /\ StageRender
    /\ IF outcome' \in {"ok", "pdf_failed"}
       THEN doc' = generate(VideoTitle, video_intro, Flatten(content), frame_mapping)
       ELSE UNCHANGED doc
    /\ UNCHANGED <<rpc, content, frame_mapping, image_plans, video_intro>>

\* The first attempt for the first video, arrived at stage 4.
AttemptAtMark ==
    /\ pc = "Mark"
    /\ settings = [llm |-> TRUE, whisper |-> TRUE]
    /\ whisper_mode \in {"api", "local"}
    /\ transcriber = 1
    /\ constructed = 1
    /\ model_cache = IF whisper_mode = "local" THEN {"base_cpu_int8"} ELSE {}
    /\ videos = 1
    /\ attempt = 1
    /\ task_dirs = {1}
    /\ task_dir = 1
    /\ handle_in = None
    /\ started = <<"Download", "Transcribe", "Polish">>
    /\ completed = <<"Download", "Transcribe", "Polish">>
    /\ failed_stage = "none"
    /\ outcome \in {"ok", "empty"}
    /\ success = FALSE
    /\ log = <<>>
    /\ asked = <<>>

InitDoc ==
    /\ AttemptAtMark
    /\ MergeIdle
    /\ RaceIdle
    /\ rpc = "idle"
    /\ content = <<>>
    /\ frame_mapping = <<>>
    /\ doc = <<>>
    /\ image_plans = <<>>
    /\ video_intro \in Intros

NextDoc ==
    \/ DocMark /\ UNCHANGED <<mergeVars, raceVars>>
    \/ DocExtractFrames /\ UNCHANGED <<mergeVars, raceVars>>
    \/ DocRender /\ UNCHANGED <<mergeVars, raceVars>>

SpecDoc == InitDoc /\ [][NextDoc]_vars

----------------------------------------------------------------------------
(* Claims about the legacy references and the image plans.                 *)

\* Piece k of the document is a legacy reference ![desc](images/frame_N.jpg).
LegacyNum(item) == item[Len(item) - 2]

LegacyDesc(item) == SubSeq(item, 3, Len(item) - 6)

IsLegacyRef(item) ==
    /\ Len(item) >= 8
    /\ LegacyNum(item).k = "digits"
    /\ item = <<Lit("!"), Lit("[")>> \o LegacyDesc(item)
                  \o <<Lit("]"), Lit("(images/"), Lit("frame_"), LegacyNum(item),
                       Lit(".jpg"), Lit(")")>>

\* C12: after the first pass of _replace_image_marks every legacy reference
\* has its index in the zero-padded 3-digit form (frame_7 has become
\* frame_007), the form of the key _extract_image_plans_from_content gives
\* the reference's plan.
C12_LegacyNormalized ==
    rpc = "legacy_done" =>
        \A i \in DOMAIN doc :
            (doc[i] = Lit("frame_") /\ KindAt(doc, i + 1, "digits"))
                => /\ doc[i + 1].b = 3
                   /\ doc[i + 1].b = legacy_key(doc[i + 1]).b

\* C13: the legacy rewrite applied twice gives the text it gives applied
\* once.
C13_LegacyIdempotent ==
    rpc = "legacy_done" =>
        /\ pass_legacy(doc) = doc
        /\ pass_legacy(pass_legacy(Flatten(content))) = pass_legacy(Flatten(content))

\* The rewrite has run over a text with the legacy reference frame_7.
C13_Witness ==
    /\ rpc = "legacy_done"
    /\ \E k \in DOMAIN content :
           IsLegacyRef(content[k]) /\ LegacyNum(content[k]) = Digits(7, 1)
    /\ \E i \in DOMAIN doc : doc[i] = Lit("frame_")

\* The plans of the canonical references of the marked text, in order.
CanonicalPlans ==
    LET refs == SelectSeq(content, IsCanonicalRef)
    IN  [n \in DOMAIN refs |-> [timestamp |-> RefStamp(refs[n]), description |-> RefDesc(refs[n])]]

\* The plans of its legacy references, in order, keyed frame_ and the index
\* padded with zeros to three digits.
LegacyPlans ==
    LET refs == SelectSeq(content, IsLegacyRef)
    IN  [n \in DOMAIN refs |->
            [timestamp |-> [k |-> "frame_NNN", a |-> LegacyNum(refs[n]).a, b |-> 3],
             description |-> LegacyDesc(refs[n])]]

MarkReturned == \E n \in DOMAIN completed : completed[n] = "Mark"

\* C14: one marker form per document: with at least one canonical reference
\* the plans are exactly the canonical references in document order with
\* their descriptions, and no legacy reference gives a plan; with none, the
\* plans are the legacy references in document order, keyed frame_NNN.
C14_OneMarkerForm ==
    MarkReturned =>
        IF CanonicalPlans # <<>>
        THEN image_plans = CanonicalPlans
        ELSE image_plans = LegacyPlans

\* A legacy reference before a canonical one: the only plan is the canonical
\* reference's.
C14_Witness ==
    /\ MarkReturned
    /\ content = <<LegacyRef(<<Word(1)>>, Digits(7, 1)), CanonicalRef(<<Word(1)>>, Stamp(1, 30))>>
    /\ image_plans = <<[timestamp |-> Stamp(1, 30), description |-> <<Word(1)>>]>>

----------------------------------------------------------------------------
(* Claims about the task folders, the failures of stages and the session.  *)

\* C15: create_task_folder creates task_<max+1>, max the largest number of
\* the existing task directories (task_1 when there is none): after task_1,
\* task_3 and task_7 it creates task_8, no gap is filled, and every number
\* created is larger than all that exist, so none is reused.
C15_MonotonicTaskNumbers ==
    [][task_dirs' # task_dirs =>
          /\ task_dirs' = task_dirs \cup {task_dir'}
          /\ task_dir' = (IF task_dirs = {} THEN 1 ELSE Max(task_dirs) + 1)
          /\ \A d \in task_dirs : d < task_dir'
          /\ task_dirs = {1, 3, 7} => task_dir' = 8]_vars

\* task_8 and then task_9 have been created beside task_1, task_3, task_7.
C15_Witness ==
    /\ task_dirs = {1, 3, 7, 8, 9}
    /\ task_dir = 9

\* The outcomes that are no usable output: no metadata, no media file, no
\* segment, an empty text, no text at all.
NoUsableOutput == {"no_info", "no_path", "no_segments", "empty", "none"}

\* C16: whenever Download, Transcribe, Polish or Mark has returned no usable
\* output, run_conversion starts none of the remaining stages and returns
\* failure for the attempt.
C16_NoUsableOutputAborts ==
    (/\ started # <<>>
     /\ Last(started) \in {"Download", "Transcribe", "Polish", "Mark"}
     /\ outcome \in NoUsableOutput)
        => (pc \notin StageNames /\ ~success)

\* C17: a failure of PDF rendering never fails the attempt: once the Markdown
\* document is written, run_conversion returns success whether the PDF
\* generator returned a path or None.
C17_PdfFailureTolerated ==
    (/\ started # <<>>
     /\ Last(started) = "Render"
     /\ outcome \in {"ok", "pdf_failed"})
        => /\ pc = "returned"
           /\ success
           /\ Last(log).success
           /\ doc = generate(VideoTitle, video_intro, Flatten(content), frame_mapping)
           /\ doc # <<>>

\* The document was written, the PDF failed, the attempt succeeded.
C17_Witness ==
    /\ pc = "returned"
    /\ Last(started) = "Render"
    /\ outcome = "pdf_failed"
    /\ success
    /\ doc # <<>>

\* The markers of a text that look a frame up and do not find it in fm.
MissingMatch(text, i, fm) ==
    IF TimestampMatch(text, i) # 0 /\ text[TimestampMatch(text, i) - 2] \notin DOMAIN fm
    THEN TimestampMatch(text, i)
    ELSE IF ImageMatch(text, i) # 0 /\ text[ImageMatch(text, i) - 1] \notin DOMAIN fm
         THEN ImageMatch(text, i)
         ELSE 0

RECURSIVE CountMissing(_, _, _)
CountMissing(text, i, fm) ==
    IF i > Len(text) THEN 0
    ELSE IF MissingMatch(text, i, fm) # 0
         THEN 1 + CountMissing(text, MissingMatch(text, i, fm) + 1, fm)
         ELSE IF MarkerMatch(text, i) # 0
              THEN CountMissing(text, MarkerMatch(text, i) + 1, fm)
              ELSE CountMissing(text, i + 1, fm)

\* The unresolved-image comments of a text.
RECURSIVE CountComments(_, _)
CountComments(text, i) ==
    IF i > Len(text) THEN 0
    ELSE IF CommentMatch(text, i) # 0
         THEN 1 + CountComments(text, CommentMatch(text, i) + 1)
         ELSE CountComments(text, i + 1)

\* C18: an empty or partial frame mapping never fails the attempt: a time
\* stamp whose extraction failed is only left out of the mapping, Render
\* runs, the attempt returns success when Render does, and every reference
\* whose frame is missing is an unresolved-image comment in the document.
C18_ShortfallTolerated ==
    /\ (/\ started # <<>>
        /\ Last(started) = "ExtractFrames"
        /\ outcome \in {"partial", "nothing"})
           => /\ pc = "Render"
              /\ DOMAIN frame_mapping \subseteq Timestamps(image_plans)
              /\ \A t \in DOMAIN frame_mapping : frame_mapping[t] = frame_path(t)
    /\ (/\ started # <<>>
        /\ Last(started) = "Render"
        /\ outcome \in {"ok", "pdf_failed"})
           => /\ success
              /\ CountComments(doc, 1)
                     = CountMissing(build_document(VideoTitle, video_intro, Flatten(content)),
                                    1, frame_mapping)

\* Two frames were asked for, one was extracted; the attempt succeeded and the
\* document holds a comment for the other.
C18_Witness ==
    /\ pc = "returned"
    /\ success
    /\ Timestamps(image_plans) = {Stamp(1, 30), Stamp(2, 5)}
    /\ DOMAIN frame_mapping = {Stamp(1, 30)}
    /\ \E i \in DOMAIN doc : CommentMatch(doc, i) # 0 /\ doc[i + 4] = Stamp(2, 5)

\* C19: the speech-to-text mode is chosen once, before the first URL, and
\* never changes afterwards; at most one Transcriber is constructed in a
\* session, in a Transcribe stage that was entered without one, and from
\* then on every attempt is handed that same handle, whatever the outcomes
\* of the earlier attempts.
C19_ModeAndHandleOnce ==
    /\ [](/\ (pc = "select_mode") <=> (whisper_mode = "unset")
          /\ whisper_mode \in {"unset", "api", "local"}
          /\ constructed <= 1
          /\ transcriber = (IF constructed = 0 THEN None ELSE 1)
          /\ (\E n \in DOMAIN completed : completed[n] = "Transcribe") => transcriber # None
          /\ \A i \in DOMAIN log :
                /\ log[i].handle_in \in {None, 1}
                /\ log[i].handle_in # None => log[i].handle_out = log[i].handle_in
                /\ i > 1 => log[i].handle_in = log[i - 1].handle_out)
    /\ [][/\ whisper_mode # "unset" => whisper_mode' = whisper_mode
          /\ transcriber # None => transcriber' = transcriber
          /\ transcriber' # transcriber => (pc = "Transcribe" /\ handle_in = None)
          /\ pc = "call" => handle_in' = transcriber]_vars

\* The second video is being transcribed with the handle constructed for the
\* first.
C19_Witness ==
    /\ videos = 2
    /\ pc = "Transcribe"
    /\ constructed = 1
    /\ handle_in = 1
    /\ transcriber = 1

\* C20: finished is the only state of the session without a next step; a
\* successful video leads to the continue prompt, a failed or abandoned one
\* to the prompt for another link (through the retry prompt while retries
\* are left), and the session ends only from the URL prompt, the continue
\* prompt or the prompt for another link, never by a failed conversion alone.
C20_SessionOffersNextAction ==
    /\ []((pc = "finished") <=> ~ENABLED Next)
    /\ [][/\ (pc = "returned" /\ success) => pc' = "continue_prompt"
          /\ (pc = "returned" /\ ~success) => pc' \in {"retry_prompt", "reenter_prompt"}
          /\ pc = "retry_prompt" => pc' \in {"call", "reenter_prompt"}
          /\ pc = "continue_prompt" => pc' \in {"url_prompt", "clear_cache"}
          /\ pc = "reenter_prompt" => pc' \in {"url_prompt", "clear_cache"}
          /\ pc' = "clear_cache" => pc \in {"url_prompt", "continue_prompt", "reenter_prompt"}
          /\ pc' = "finished" => pc = "clear_cache"]_vars

\* The third attempt has failed and the session asks for another link.
C20_Witness ==
    /\ pc = "reenter_prompt"
    /\ Len(log) = 3
    /\ ~success

\* C21: an exception or an interrupt raised while a stage runs is caught by
\* run_conversion: the attempt returns failure together with the transcriber
\* handle, no later stage of that attempt runs, and the directory an attempt
\* enters never existed before, so an interrupted workspace is not entered
\* again.
C21_InterruptEndsAttempt ==
    /\ []((started # <<>> /\ outcome \in {"exception", "interrupt"})
             => /\ pc \notin StageNames
                /\ failed_stage = Last(started)
                /\ pc = "returned"
                       => /\ ~success
                          /\ ~Last(log).success
                          /\ Last(log).handle_out = transcriber
                          /\ Last(log).dir = task_dir)
    /\ [][/\ (pc \in StageNames /\ outcome' \in {"exception", "interrupt"})
                => (pc' = "returned" /\ started' = Append(started, pc))
          /\ (pc = "call" /\ pc' = "Download")
                => (task_dir' \notin task_dirs /\ task_dir' \in task_dirs')]_vars

\* The second attempt, in a directory of its own, was interrupted while
\* polishing and has returned failure with the Transcriber it was handed.
C21_Witness ==
    /\ pc = "returned"
    /\ outcome = "interrupt"
    /\ Last(started) = "Polish"
    /\ Len(log) = 2
    /\ log[1].dir # log[2].dir
    /\ log[2].handle_in = 1
    /\ log[2].handle_out = 1
    /\ ~success

\* C22: without LLM credentials run_conversion returns failure before any
\* stage runs and before a task directory is created: the set of task
\* directories stays as it was.
C22_PreflightCreatesNothing ==
    /\ [](~settings.llm => (started = <<>> /\ task_dirs \in InitialTaskDirs /\ ~success))
    /\ [][(pc = "call" /\ ~settings.llm)
              => /\ pc' = "returned"
                 /\ ~success'
                 /\ task_dirs' = task_dirs
                 /\ started' = <<>>
                 /\ Last(log').dir = 0]_vars

\* An attempt without LLM credentials has returned; task_1, task_3 and task_7
\* are still the only directories.
C22_Witness ==
    /\ ~settings.llm
    /\ pc = "returned"
    /\ Len(log) = 1
    /\ task_dirs = {1, 3, 7}

\* C23: whichever exit the session takes (the URL prompt, the continue
\* prompt, the prompt for another link), clear_model_cache runs next, after
\* the last attempt, and leaves the model cache empty; no attempt runs after
\* it.
C23_CacheReleasedAtExit ==
    /\ [](pc = "finished" => model_cache = {})
    /\ [][/\ pc' = "clear_cache" => pc \in {"url_prompt", "continue_prompt", "reenter_prompt"}
          /\ pc = "clear_cache" => (pc' = "finished" /\ model_cache' = {})
          /\ pc \in {"clear_cache", "finished"}
                => /\ pc' \notin StageNames \cup {"call"}
                   /\ <<log, started, attempt, videos>>' = <<log, started, attempt, videos>>]_vars
    /\ (pc = "clear_cache") ~> (pc = "finished" /\ model_cache = {})

\* A session in local mode has ended after a successful conversion: the model
\* it had loaded is released.
C23_Witness ==
    /\ pc = "finished"
    /\ whisper_mode = "local"
    /\ Len(log) >= 1
    /\ Last(log).success
    /\ model_cache = {}

----------------------------------------------------------------------------
(* The decision of one step of the merge sweep.                            *)

----------------------------------------------------------------------------
(* create_task_folder called by several processes on one base directory    *)
(* (cli.py): the number is read, then the directories are made, each by a  *)
(* system call of its own.                                                 *)

Procs == 1..MaxProcs

\* Path.mkdir(exist_ok=True) on a directory that is there already: no error.
mkdir_raises_if_exists(existing, d) == d \in existing

mkdir_raises(existing, d) == FALSE

\* task_id = get_next_task_id(base_dir)
RaceGetId(p) ==
    /\ procs[p].pc = "start"
    /\ procs' = [procs EXCEPT ![p].pc = "got_id",
                              ![p].task_id = get_next_task_id(base_dir)]
    /\ UNCHANGED <<base_dir, subdirs>>

\* task_dir.mkdir(parents=True, exist_ok=True)
RaceMkdir(p) ==
    /\ procs[p].pc = "got_id"
    /\ IF mkdir_raises(base_dir, procs[p].task_id)
       THEN /\ procs' = [procs EXCEPT ![p].pc = "error"]
            /\ UNCHANGED base_dir
       ELSE /\ procs' = [procs EXCEPT ![p].pc = "made"]
            /\ base_dir' = base_dir \cup {procs[p].task_id}
    /\ UNCHANGED subdirs

\* (task_dir / "temp").mkdir(exist_ok=True)
RaceMkdirTemp(p) ==
    /\ procs[p].pc = "made"
    /\ IF mkdir_raises(subdirs, <<procs[p].task_id, "temp">>)
       THEN /\ procs' = [procs EXCEPT ![p].pc = "error"]
            /\ UNCHANGED subdirs
       ELSE /\ procs' = [procs EXCEPT ![p].pc = "temp_made"]
            /\ subdirs' = subdirs \cup {<<procs[p].task_id, "temp">>}
    /\ UNCHANGED base_dir

\* (task_dir / "output").mkdir(exist_ok=True); return task_dir
RaceMkdirOutput(p) ==
    /\ procs[p].pc = "temp_made"
    /\ IF mkdir_raises(subdirs, <<procs[p].task_id, "output">>)
       THEN /\ procs' = [procs EXCEPT ![p].pc = "error"]
            /\ UNCHANGED subdirs
       ELSE /\ procs' = [procs EXCEPT ![p].pc = "returned",
                                     ![p].result = procs[p].task_id]
            /\ subdirs' = subdirs \cup {<<procs[p].task_id, "output">>}
    /\ UNCHANGED base_dir

InitRace ==
    /\ OrchIdle
    /\ MergeIdle
    /\ MarksIdle
    /\ procs = [p \in Procs |-> [pc |-> "start", task_id |-> 0, result |-> 0]]
    /\ base_dir \in InitialTaskDirs
    /\ subdirs = {<<n, name>> : n \in base_dir, name \in {"temp", "output"}}

NextRace ==
    \/ \E p \in Procs : RaceGetId(p) /\ UNCHANGED <<orchVars, mergeVars, markVars>>
    \/ \E p \in Procs : RaceMkdir(p) /\ UNCHANGED <<orchVars, mergeVars, markVars>>
    \/ \E p \in Procs : RaceMkdirTemp(p) /\ UNCHANGED <<orchVars, mergeVars, markVars>>
    \/ \E p \in Procs : RaceMkdirOutput(p) /\ UNCHANGED <<orchVars, mergeVars, markVars>>

SpecRace == InitRace /\ [][NextRace]_vars

\* C25: create_task_folder reads the number and makes the directory in two
\* steps and reserves nothing: reading changes nothing on the disk, no mkdir
\* fails on a directory that is there already, every process returns the
\* directory of the number it read, and two processes that have both read a
\* number whose directory is not made yet have read the same number.
C25_NoReservation ==
    /\ [](\A p \in Procs :
             /\ procs[p].pc # "error"
             /\ procs[p].pc \in {"made", "temp_made", "returned"}
                    => procs[p].task_id \in base_dir
             /\ procs[p].pc = "returned"
                    => /\ procs[p].result = procs[p].task_id
                       /\ <<procs[p].result, "temp">> \in subdirs
                       /\ <<procs[p].result, "output">> \in subdirs)
    /\ [](\A p, q \in Procs :
             (/\ procs[p].pc = "got_id" /\ procs[p].task_id \notin base_dir
              /\ procs[q].pc = "got_id" /\ procs[q].task_id \notin base_dir)
                 => procs[p].task_id = procs[q].task_id)
    /\ [][\A p \in Procs :
             (procs[p].pc = "start" /\ procs'[p].pc = "got_id")
                 => (base_dir' = base_dir /\ subdirs' = subdirs)]_vars

\* Both processes have returned the same task directory, task_8.
C25_Witness ==
    /\ base_dir = {1, 3, 7, 8}
    /\ procs[1].pc = "returned"
    /\ procs[2].pc = "returned"
    /\ procs[1].result = 8
    /\ procs[2].result = 8

\* C26: replace_image_marks is idempotent for a fixed frame mapping: applied
\* to its own output it returns that output unchanged, for resolved
\* references and for unresolved-image comments alike.
C26_Idempotent ==
    rpc = "done" => replace_image_marks(doc, frame_mapping) = doc

\* The part of C26 that the code keeps: an output that holds no
\* unresolved-image comment is returned unchanged by a second application.
C26_ResolvedOutputStable ==
    (rpc = "done" /\ CountComments(doc, 1) = 0)
        => replace_image_marks(doc, frame_mapping) = doc

\* The time stamps replace_image_marks looks up in the frame mapping for a
\* text: those of its canonical references (replace_timestamp_image) and
\* those of its [IMAGE: MM:SS] markers (replace).
RECURSIVE LookedUp(_, _)
LookedUp(text, i) ==
    IF i > Len(text) THEN {}
    ELSE IF TimestampMatch(text, i) # 0
         THEN {text[TimestampMatch(text, i) - 2]} \cup LookedUp(text, TimestampMatch(text, i) + 1)
         ELSE IF ImageMatch(text, i) # 0
              THEN {text[ImageMatch(text, i) - 1]} \cup LookedUp(text, ImageMatch(text, i) + 1)
              ELSE LookedUp(text, i + 1)

\* The document generate assembles in the attempt, before its marks are
\* replaced.
Assembled == build_document(VideoTitle, video_intro, Flatten(content))

\* C27: within one attempt every time stamp that replace_image_marks looks
\* up in the frame mapping, for a canonical reference or an [IMAGE: MM:SS]
\* marker anywhere in the assembled document, is the time stamp of an image
\* plan and so was requested from extract_frames, and every key of the frame
\* mapping is a requested time stamp.
C27_LookupsWereRequested ==
    (pc = "returned" /\ success) =>
        /\ LookedUp(Assembled, 1) \subseteq Timestamps(image_plans)
        /\ DOMAIN frame_mapping \subseteq Timestamps(image_plans)

\* The part of C27 that the code keeps: the keys of the frame mapping are
\* requested time stamps, and the time stamps of the canonical references of
\* the marked text are requested.
C27_KeysWereRequested ==
    (pc = "returned" /\ success) =>
        /\ DOMAIN frame_mapping \subseteq Timestamps(image_plans)
        /\ \A k \in DOMAIN content :
               IsCanonicalRef(content[k]) => RefStamp(content[k]) \in Timestamps(image_plans)

============================================================================
